---- MODULE Spec2Model ----
(***************************************************************************)
(* Model of the refresh / fan-out orchestration of src/terryquant.py:      *)
(* DataFeed (rolling candle buffers), QuantEngine (start, stop, the        *)
(* analysis loop, the per-symbol analysis, the broadcast) and the          *)
(* websocket / snapshot endpoints that race with the loop.                 *)
(*                                                                         *)
(* The program runs on one asyncio event loop: a task runs without         *)
(* interruption from one `await` to the next.  Every action below is one   *)
(* such uninterrupted stretch of one task, or one completion of awaited    *)
(* I/O (a kline response, a websocket send).                               *)
(***************************************************************************)
EXTENDS Integers, Sequences, FiniteSets, TLC

\* ---------------------------------------------------------------- bounds
\* Number of refresh cycles the analysis loop is followed through.
MaxCycles == 2
\* Number of websocket objects that ever connect.
MaxSubs == 2
\* Number of hours the exchange's clock advances.
MaxHours == 1
\* Number of instruments of the symbol list that are followed.
NumSymbols == 2

\* ------------------------------------------------------- program constants
\* deque(maxlen=500)
maxlen == 500
\* `if len(df) < 50` : the least history that is analysed
MinCandles == 50

\* self.symbols, in list order; the model follows the first NumSymbols.
AllSymbols == <<"BTCUSDT", "ETHUSDT", "BNBUSDT">>
symbols == SubSeq(AllSymbols, 1, NumSymbols)
SymbolSet == {symbols[i] : i \in 1..Len(symbols)}

Subs == 1..MaxSubs

VARIABLES
    running,        \* QuantEngine.running
    session,        \* DataFeed.session: "none", "open", "closed"
    pc,             \* where the engine / the _analysis_loop task stands
    idx,            \* index in symbols of the symbol being analysed (0: none)
    cycle,          \* number of the loop iteration (0: before the first)
    fetchPending,   \* symbols whose _fetch_binance_klines task has not returned
    history,        \* DataFeed.ohlcv_history: symbol -> deque of candles
    hour,           \* the exchange's clock: open time of its newest candle
    active,         \* QuantEngine.active_connections
    wsState,        \* websocket -> "new", "open", "closed"
    inbox,          \* websocket -> sequence of messages its client received
    inflight,       \* send_json calls that have not completed
    toVisit,        \* _broadcast: elements the set iterator has yet to yield
    bSize,          \* _broadcast: set size the iterator recorded at its start
    disconnected,   \* _broadcast: local set `disconnected`
    bStart,         \* history: registry when the current broadcast started
    attempts,       \* history: websockets send_json was called on, in order
    raced,          \* history: connect / disconnect ran during this broadcast
    bEnd,           \* history: how the broadcast that just ended went
    whole,          \* history: symbol -> last completely stored buffer content
    kl,             \* history: symbol -> outcome of this cycle's kline fetch
    res,            \* history: symbol -> outcome of this cycle's analysis
    steady,         \* history: registered since the cycle began, no failed send
    sendFailed,     \* history: a send failed in this cycle
    prevFailed,     \* history: the cycle before this one had a failure
    stopPc,         \* history: pc when stop() was called ("none" before)
    stopIdx,        \* history: idx when stop() was called
    snap,           \* history: the get_ohlcv_array snapshot taken by this step
    args,           \* arguments of the analysis function that is followed
    ret,            \* what that function returned ("none" before the call)
    tasks           \* the _analysis_loop tasks start() created, in order

loopVars == <<running, session, pc, idx, cycle, fetchPending>>
feedVars == <<history, whole, hour>>
subVars == <<active, wsState, inbox>>
bcastVars == <<inflight, toVisit, bSize, disconnected, bStart, attempts, raced, bEnd>>
cycVars == <<kl, res, steady, sendFailed, prevFailed, stopPc, stopIdx>>
callVars == <<args, ret>>
engineVars == <<loopVars, feedVars, subVars, bcastVars, cycVars, snap>>
vars == <<engineVars, callVars, tasks>>

NoSnap == [sym |-> "none", data |-> <<>>]
NoCall == [fn |-> "none"]
NoRet == [fn |-> "none"]
NoEnd == [aborted |-> FALSE, start |-> {}, attempts |-> <<>>, failed |-> {},
          after |-> {}, raced |-> FALSE, ended |-> FALSE]

Range(f) == {f[i] : i \in DOMAIN f}

\* ------------------------------------------------------------ DataFeed

\* The klines the exchange answers at hour g when it answers n candles:
\* the n hourly candles that end at hour g, oldest first.  A candle
\* is identified by its open time.
Klines(g, n) == [i \in 1..n |-> g - n + i]

\* deque.append on a deque(maxlen=500): a full deque drops its oldest entry.
DequeAppendNoEvict(q, c) == Append(q, c)
DequeAppend(q, c) ==
    IF Len(q) >= maxlen THEN Append(Tail(q), c) ELSE Append(q, c)

\* The loop `for candle in data: ... append(ohlcv)` run over data[from..upto],
\* in order: the first half of the range, then the second.  The test on the
\* first half's length has the first half evaluated before the second is
\* entered, so the evaluation nests only to the logarithm of the range.
RECURSIVE AppendAll(_, _, _, _)
AppendAll(q, data, from, upto) ==
    IF from > upto THEN q
    ELSE IF from = upto THEN DequeAppend(q, data[from])
    ELSE LET mid == (from + upto) \div 2
             firstHalf == AppendAll(q, data, from, mid)
         IN IF Len(firstHalf) <= maxlen
            THEN AppendAll(firstHalf, data, mid + 1, upto)
            ELSE firstHalf


\* Outcomes of one _fetch_binance_klines call:
\*   fail : status other than 200, or session.get / resp.json raised
\*   ok   : status 200, n well-formed candles
\*   bad  : status 200, n candles of which number k cannot be parsed
\* The orchestration is followed with whole answers just below and at
\* MinCandles candles (limit=500 is an upper bound on an answer's length);
\* the buffer claims are followed with malformed answers as well.
Failed == [kind |-> "fail", n |-> 0, k |-> 0]
Whole(n) == [kind |-> "ok", n |-> n, k |-> 0]
Malformed(n, k) == [kind |-> "bad", n |-> n, k |-> k]
CycleOutcomes == {Failed, Whole(MinCandles - 1), Whole(MinCandles)}
FeedOutcomes ==
    {Failed, Whole(MinCandles - 1), Whole(MinCandles),
     Malformed(MinCandles, 1), Malformed(MinCandles + 1, MinCandles + 1)}

\* Buffer of a symbol after the call: unchanged when the call fails before
\* clear(); otherwise cleared and refilled up to the candle that raises.
StoreKlines(q, g, o) ==
    CASE o.kind = "fail" -> q
      [] o.kind = "ok"   -> AppendAll(<<>>, Klines(g, o.n), 1, o.n)
      [] o.kind = "bad"  -> AppendAll(<<>>, Klines(g, o.n), 1, o.k - 1)

\* asyncio.gather(...) returns once every task it was given has returned.
GatherAtFirst == fetchPending # SymbolSet
GatherComplete == fetchPending = {}

\* ------------------------------------------------------------ QuantEngine

\* A failure of one of the kinds the loop must survive happened this cycle.
CycleFailed ==
    \/ \E s \in SymbolSet : kl[s] \in {"fail", "bad"}
    \/ \E s \in SymbolSet : res[s] \in {"noprice", "nodata", "raise"}
    \/ sendFailed

\* `while self.running`
LoopConditionUntilFailure == running /\ ~CycleFailed
LoopConditionForever == TRUE
LoopCondition == running

\* Position in `for symbol in self.data_feed.symbols` after symbol i.
AdvancePc(i) == IF i < Len(symbols) THEN "price" ELSE "sleep"
AdvanceIdx(i) == IF i < Len(symbols) THEN i + 1 ELSE 0

\* `except Exception as e: logger.error(...)` inside the for loop: the
\* error of symbol i is logged and the loop goes on after symbol i.
AfterErrorAbort(i) == Len(symbols)
AfterError(i) == i

\* `for ws in disconnected: self.active_connections.discard(ws)`
CleanupNone(act, disc) == act
Cleanup(act, disc) == act \ disc

\* `await ws.send_json(message)`: _broadcast goes on only once the send it
\* awaits has completed.
SendNotAwaited == TRUE
SendAwaited == inflight = {}

\* The engine and the feed after construction.
InitEngine ==
    /\ running = FALSE
    /\ session = "none"
    /\ pc = "init"
    /\ idx = 0
    /\ cycle = 0
    /\ fetchPending = {}
    /\ hour = 0
    /\ history = [s \in SymbolSet |-> <<>>]
    /\ whole = [s \in SymbolSet |-> <<>>]
    /\ active = {}
    /\ wsState = [w \in Subs |-> "new"]
    /\ inbox = [w \in Subs |-> <<>>]
    /\ inflight = {}
    /\ toVisit = {}
    /\ bSize = 0
    /\ disconnected = {}
    /\ bStart = {}
    /\ attempts = <<>>
    /\ raced = FALSE
    /\ bEnd = NoEnd
    /\ kl = [s \in SymbolSet |-> "none"]
    /\ res = [s \in SymbolSet |-> "none"]
    /\ steady = {}
    /\ sendFailed = FALSE
    /\ prevFailed = FALSE
    /\ stopPc = "none"
    /\ stopIdx = 0
    /\ snap = NoSnap
    /\ tasks = <<>>

Init ==
    /\ InitEngine
    /\ args = NoCall
    /\ ret = NoRet

\* QuantEngine.start up to the gather of _load_historical_data.
Start ==
    /\ pc = "init"
    /\ session' = "open"
    /\ fetchPending' = SymbolSet
    /\ pc' = "backfill"
    /\ snap' = NoSnap
    /\ UNCHANGED <<running, idx, cycle, feedVars, subVars, bcastVars, cycVars>>
    /\ UNCHANGED <<callVars, tasks>>

\* One _fetch_binance_klines task runs from the arrival of its response to
\* its return: no await lies between clear() and the last append.
FetchKlines(s, outcomes) ==
    /\ s \in fetchPending
    /\ \E o \in outcomes :
        /\ (o.kind # "fail") => session = "open"
        /\ history' = [history EXCEPT ![s] = StoreKlines(history[s], hour, o)]
        /\ whole' = [whole EXCEPT ![s] =
                        IF o.kind = "ok" THEN history'[s] ELSE whole[s]]
        /\ hour' = hour
        /\ kl' = [kl EXCEPT ![s] = o.kind]
    /\ fetchPending' = fetchPending \ {s}
    /\ snap' = NoSnap
    /\ UNCHANGED <<running, session, pc, idx, cycle, subVars, bcastVars,
                   res, steady, sendFailed, prevFailed, stopPc, stopIdx>>
    /\ UNCHANGED <<callVars, tasks>>

\* QuantEngine.start after _load_historical_data: running, create_task.
StartDone ==
    /\ pc = "backfill"
    /\ GatherComplete
    /\ running' = TRUE
    /\ pc' = "while"
    /\ snap' = NoSnap
    /\ UNCHANGED <<session, idx, cycle, fetchPending, feedVars, subVars,
                   bcastVars, cycVars>>
    /\ UNCHANGED <<callVars, tasks>>

\* QuantEngine.stop: running = False, then the session is closed.
Stop ==
    /\ running
    /\ running' = FALSE
    /\ session' = "closed"
    /\ stopPc' = pc
    /\ stopIdx' = idx
    /\ snap' = NoSnap
    /\ UNCHANGED <<pc, idx, cycle, fetchPending, feedVars, subVars, bcastVars,
                   kl, res, steady, sendFailed, prevFailed>>
    /\ UNCHANGED <<callVars, tasks>>

\* _analysis_loop: the `while self.running` test, at the task's first step or
\* after asyncio.sleep(5); a true test starts _update_all_symbols, which
\* hands one fetch per symbol to asyncio.gather.
LoopWhile ==
    /\ pc \in {"while", "sleep"}
    /\ IF LoopCondition
       THEN /\ cycle < MaxCycles
            /\ cycle' = cycle + 1
            /\ fetchPending' = SymbolSet
            /\ pc' = "gather"
            /\ prevFailed' = CycleFailed
            /\ kl' = [s \in SymbolSet |-> "none"]
            /\ res' = [s \in SymbolSet |-> "none"]
            /\ steady' = active
            /\ sendFailed' = FALSE
       ELSE /\ pc' = "exited"
            /\ UNCHANGED <<cycle, fetchPending, prevFailed, kl, res, steady,
                           sendFailed>>
    /\ bEnd' = NoEnd
    /\ snap' = NoSnap
    /\ UNCHANGED <<running, session, idx, feedVars, subVars, inflight, toVisit,
                   bSize, disconnected, bStart, attempts, raced, stopPc, stopIdx>>
    /\ UNCHANGED <<callVars, tasks>>

\* _update_all_symbols resumes from the gather and enters the for loop:
\* _analyze_symbol of the first symbol awaits get_latest_price.
GatherDone ==
    /\ pc = "gather"
    /\ GatherComplete
    /\ pc' = "price"
    /\ idx' = 1
    /\ snap' = NoSnap
    /\ UNCHANGED <<running, session, cycle, fetchPending, feedVars, subVars,
                   bcastVars, cycVars>>
    /\ UNCHANGED <<callVars, tasks>>

\* The broadcast locals when no broadcast is running.
NoBroadcast ==
    /\ toVisit' = {}
    /\ bSize' = 0
    /\ disconnected' = {}
    /\ bStart' = {}
    /\ attempts' = <<>>
    /\ raced' = FALSE

\* TechnicalAnalyzer.calculate: None for a frame of fewer than 50 rows,
\* the indicator bundle otherwise.
calculateAtMost(df) == IF Len(df) <= MinCandles THEN "None" ELSE "indicators"
calculate(df) == IF Len(df) < MinCandles THEN "None" ELSE "indicators"

\* _analyze_symbol resumes from get_latest_price and runs to its return;
\* with a result, _broadcast runs up to its first `await ws.send_json`.
AnalyzeSymbol(priceOk, raises) ==
    /\ pc = "price"
    /\ priceOk => session = "open"
    /\ LET s == symbols[idx]
           enough == /\ Len(history[s]) >= MinCandles
                     /\ calculate(history[s]) # "None"
           outcome == IF ~priceOk THEN "noprice"
                      ELSE IF ~enough THEN "nodata"
                      ELSE IF raises THEN "raise"
                      ELSE "result"
       IN
        /\ snap' = IF priceOk THEN [sym |-> s, data |-> history[s]] ELSE NoSnap
        /\ res' = [res EXCEPT ![s] = outcome]
        /\ bEnd' = NoEnd
        /\ IF outcome = "result" /\ active # {}
           THEN \E w \in active :
                /\ inflight' = inflight \cup {[ws |-> w, sym |-> s, cycle |-> cycle]}
                /\ toVisit' = active \ {w}
                /\ bSize' = Cardinality(active)
                /\ disconnected' = {}
                /\ bStart' = active
                /\ attempts' = <<w>>
                /\ raced' = FALSE
                /\ pc' = "send"
                /\ idx' = idx
           ELSE /\ NoBroadcast
                /\ inflight' = inflight
                /\ LET last == IF outcome = "raise" THEN AfterError(idx) ELSE idx
                   IN /\ pc' = AdvancePc(last)
                      /\ idx' = AdvanceIdx(last)
    /\ UNCHANGED <<running, session, cycle, fetchPending, feedVars, subVars,
                   kl, steady, sendFailed, prevFailed, stopPc, stopIdx>>
    /\ UNCHANGED <<callVars, tasks>>

\* A send_json call completes: the message reaches the client, or the call
\* raises and `except Exception: disconnected.add(ws)` runs.
SendCompletes(m, ok) ==
    /\ m \in inflight
    /\ ok => wsState[m.ws] = "open"
    /\ inflight' = inflight \ {m}
    /\ IF ok
       THEN /\ inbox' = [inbox EXCEPT ![m.ws] =
                            Append(@, [sym |-> m.sym, cycle |-> m.cycle])]
            /\ UNCHANGED <<disconnected, steady, sendFailed>>
       ELSE /\ disconnected' = disconnected \cup {m.ws}
            /\ steady' = steady \ {m.ws}
            /\ sendFailed' = TRUE
            /\ inbox' = inbox
    /\ snap' = NoSnap
    /\ UNCHANGED <<loopVars, feedVars, active, wsState, toVisit, bSize, bStart,
                   attempts, raced, bEnd, kl, res, prevFailed, stopPc, stopIdx>>
    /\ UNCHANGED <<callVars, tasks>>

\* _broadcast resumes from the send and asks the set iterator for the next
\* websocket.  The iterator raises RuntimeError when the set's size differs
\* from the size it recorded (the error leaves _broadcast and is caught by
\* the for loop of _update_all_symbols); it ends the loop when nothing is
\* left, and then the failed websockets are discarded.
BroadcastNext ==
    /\ pc = "send"
    /\ SendAwaited
    /\ IF Cardinality(active) # bSize
       THEN /\ bEnd' = [aborted |-> TRUE, start |-> bStart, attempts |-> attempts,
                        failed |-> disconnected, after |-> active,
                        raced |-> raced, ended |-> TRUE]
            /\ active' = active
            /\ NoBroadcast
            /\ inflight' = inflight
            /\ pc' = AdvancePc(AfterError(idx))
            /\ idx' = AdvanceIdx(AfterError(idx))
       ELSE IF toVisit = {}
       THEN /\ active' = Cleanup(active, disconnected)
            /\ bEnd' = [aborted |-> FALSE, start |-> bStart, attempts |-> attempts,
                        failed |-> disconnected, after |-> active',
                        raced |-> raced, ended |-> TRUE]
            /\ NoBroadcast
            /\ inflight' = inflight
            /\ pc' = AdvancePc(idx)
            /\ idx' = AdvanceIdx(idx)
       ELSE \E w \in toVisit :
            /\ inflight' = inflight \cup
                              {[ws |-> w, sym |-> symbols[idx], cycle |-> cycle]}
            /\ toVisit' = toVisit \ {w}
            /\ attempts' = Append(attempts, w)
            /\ UNCHANGED <<active, bSize, disconnected, bStart, raced, bEnd,
                           pc, idx>>
    /\ snap' = NoSnap
    /\ UNCHANGED <<running, session, cycle, fetchPending, feedVars, wsState,
                   inbox, cycVars>>
    /\ UNCHANGED <<callVars, tasks>>

\* websocket_endpoint -> QuantEngine.connect: accept, then add to the set.
\* A set element added while an iterator is at work lands before or after
\* the iterator's position.
Connect(w, ahead) ==
    /\ running
    /\ wsState[w] = "new"
    /\ \A v \in Subs : v < w => wsState[v] # "new"
    /\ wsState' = [wsState EXCEPT ![w] = "open"]
    /\ active' = active \cup {w}
    /\ IF pc = "send"
       THEN /\ toVisit' = IF ahead THEN toVisit \cup {w} ELSE toVisit
            /\ raced' = TRUE
       ELSE /\ ahead = FALSE
            /\ UNCHANGED <<toVisit, raced>>
    /\ snap' = NoSnap
    /\ UNCHANGED <<loopVars, feedVars, inbox, inflight, bSize, disconnected,
                   bStart, attempts, bEnd, cycVars>>
    /\ UNCHANGED <<callVars, tasks>>

\* websocket_endpoint: receive_text raises WebSocketDisconnect (or another
\* error) -> QuantEngine.disconnect: discard from the set.
Disconnect(w) ==
    /\ wsState[w] = "open"
    /\ wsState' = [wsState EXCEPT ![w] = "closed"]
    /\ active' = active \ {w}
    /\ toVisit' = toVisit \ {w}
    /\ raced' = (raced \/ pc = "send")
    /\ steady' = steady \ {w}
    /\ snap' = NoSnap
    /\ UNCHANGED <<loopVars, feedVars, inbox, inflight, bSize, disconnected,
                   bStart, attempts, bEnd, kl, res, sendFailed, prevFailed,
                   stopPc, stopIdx>>
    /\ UNCHANGED <<callVars, tasks>>

\* A symbol that is not in self.symbols.
Unsupported == "XRPUSDT"

\* get_snapshot, a pull-style query: the symbol test, then _analyze_symbol
\* from the return of get_latest_price to its end (as in AnalyzeSymbol),
\* then the reply.  get_snapshot has no try around _analyze_symbol: what the
\* analysis raises leaves the handler.
get_snapshot(sym, priceOk, raises) ==
    /\ running
    /\ priceOk => session = "open"
    /\ LET supported == sym \in SymbolSet
           enough == /\ supported
                     /\ Len(history[sym]) >= MinCandles
                     /\ calculate(history[sym]) # "None"
           reply == IF ~supported THEN "error"
                    ELSE IF ~priceOk THEN "error"
                    ELSE IF ~enough THEN "error"
                    ELSE IF raises THEN "fault"
                    ELSE "result"
       IN /\ snap' = IF supported /\ priceOk
                     THEN [sym |-> sym, data |-> history[sym]]
                     ELSE NoSnap
          /\ args' = [fn |-> "get_snapshot", symbol |-> sym]
          /\ ret' = [fn |-> "get_snapshot", reply |-> reply]
    /\ UNCHANGED <<loopVars, feedVars, subVars, bcastVars, cycVars, tasks>>

\* An hour passes at the exchange: its newest candle is one hour later.
Tick ==
    /\ hour < MaxHours
    /\ hour' = hour + 1
    /\ snap' = NoSnap
    /\ UNCHANGED <<loopVars, history, whole, subVars, bcastVars, cycVars>>
    /\ UNCHANGED <<callVars, tasks>>

Next ==
    \/ Start
    \/ \E s \in SymbolSet : FetchKlines(s, CycleOutcomes)
    \/ StartDone
    \/ Stop
    \/ LoopWhile
    \/ GatherDone
    \/ \E p, r \in BOOLEAN : AnalyzeSymbol(p, r)
    \/ \E m \in inflight, ok \in BOOLEAN : SendCompletes(m, ok)
    \/ BroadcastNext
    \/ \E w \in Subs, a \in BOOLEAN : Connect(w, a)
    \/ \E w \in Subs : Disconnect(w)

Spec == Init /\ [][Next]_vars

\* The feed with its readers: the loop and pull-style queries, every kind of
\* answer of the exchange, no websocket client.
NextFeed ==
    \/ Start
    \/ \E s \in SymbolSet : FetchKlines(s, FeedOutcomes)
    \/ StartDone
    \/ Stop
    \/ LoopWhile
    \/ GatherDone
    \/ \E p, r \in BOOLEAN : AnalyzeSymbol(p, r)
    \/ \E s \in SymbolSet \cup {Unsupported}, p, r \in BOOLEAN : get_snapshot(s, p, r)
    \/ Tick

SpecFeed == Init /\ [][NextFeed]_vars

\* ------------------------------------------- DataFeed, candle by candle
\* Candles an answer holds beyond the 500 the request's limit names; the
\* code does not test the length of the answer.
MaxExtra == 2

\* Answers the store is followed with: a failure, a short answer, answers
\* longer than the deque, answers with a candle that cannot be parsed.
StoreOutcomes ==
    {Failed, Whole(MinCandles), Whole(maxlen + MaxExtra),
     Malformed(MinCandles, 1), Malformed(maxlen + MaxExtra, maxlen + MaxExtra)}

\* The candle `for candle in data` stands at raises in the OHLCV conversion.
CandleRaises == args.data.kind = "bad" /\ args.i = args.data.k

\* _fetch_binance_klines resumes with the response: a failure is logged;
\* with status 200 and a decoded answer the deque is cleared and the loop
\* over the candles begins.  No other task runs until the loop is left.
\* For a symbol that is no key of ohlcv_history the lookup of line 180
\* raises KeyError inside the try, and the except logs it.
FetchResponse(s, o) ==
    /\ args = NoCall
    /\ IF o.kind = "fail"
       THEN /\ ret' = [fn |-> "_fetch_binance_klines", symbol |-> s,
                       status |-> "fail"]
            /\ UNCHANGED <<history, args>>
       ELSE IF s \notin SymbolSet
       THEN /\ ret' = [fn |-> "_fetch_binance_klines", symbol |-> s,
                       status |-> "raised"]
            /\ UNCHANGED <<history, args>>
       ELSE /\ history' = [history EXCEPT ![s] = <<>>]
            /\ args' = [fn |-> "_fetch_binance_klines", symbol |-> s,
                        data |-> o, g |-> hour, i |-> 1]
            /\ ret' = NoRet
    /\ UNCHANGED <<loopVars, whole, hour, subVars, bcastVars, cycVars, snap,
                   tasks>>

\* One pass of the loop body: OHLCV(...) of candle i, then deque.append.
StoreCandle ==
    /\ args.fn = "_fetch_binance_klines"
    /\ args.i <= args.data.n
    /\ ~CandleRaises
    /\ history' = [history EXCEPT ![args.symbol] =
                      DequeAppend(@, Klines(args.g, args.data.n)[args.i])]
    /\ args' = [args EXCEPT !.i = @ + 1]
    /\ UNCHANGED <<loopVars, whole, hour, subVars, bcastVars, cycVars, snap,
                   ret, tasks>>

\* The loop is left, after the last candle or by the exception of a candle
\* that cannot be parsed, and the call returns.
FetchReturn ==
    /\ args.fn = "_fetch_binance_klines"
    /\ args.i > args.data.n \/ CandleRaises
    /\ ret' = [fn |-> "_fetch_binance_klines", symbol |-> args.symbol,
               status |-> IF CandleRaises THEN "raised" ELSE "ok"]
    /\ args' = NoCall
    /\ UNCHANGED <<loopVars, feedVars, subVars, bcastVars, cycVars, snap,
                   tasks>>

\* get_ohlcv_array(symbol): the rows of the deque, an empty frame for an
\* empty deque; the lookup self.ohlcv_history[symbol] of line 211 stands in
\* no try, so a symbol that is no key leaves the call as KeyError.
GetOhlcvArray(s) ==
    /\ args = NoCall
    /\ ret' = IF s \in SymbolSet
              THEN [fn |-> "get_ohlcv_array", symbol |-> s,
                    raised |-> "none", rows |-> history[s]]
              ELSE [fn |-> "get_ohlcv_array", symbol |-> s,
                    raised |-> "KeyError", rows |-> <<>>]
    /\ UNCHANGED <<engineVars, args, tasks>>

\* The store under any sequence of _fetch_binance_klines calls (the backfill
\* and the refreshes), each followed candle by candle, and of
\* get_ohlcv_array calls between them, for the symbols of the feed and for
\* a symbol outside them.
NextStore ==
    \/ \E s \in SymbolSet \cup {Unsupported}, o \in StoreOutcomes :
           FetchResponse(s, o)
    \/ StoreCandle
    \/ FetchReturn
    \/ \E s \in SymbolSet \cup {Unsupported} : GetOhlcvArray(s)
    \/ Tick

SpecStore == Init /\ [][NextStore]_vars

\* ---------------------------------------------------------- SignalEngine
\* Numbers are integers: a score is the integer the code assigns; an
\* indicator value stands for itself on a grid of integers, which decides
\* every comparison the code makes; a weight is in hundredths.

Min(a, b) == IF a < b THEN a ELSE b
Max(a, b) == IF a > b THEN a ELSE b
Abs(a) == IF a < 0 THEN -a ELSE a

\* 1. trend: `if ema_20 > ema_50 > ema_50` (a chained comparison whose
\* second half compares ema_50 with itself), elif ema_20 < ema_50, elif
\* adx > 25, else.
trend_score(ema_20, ema_50, adx, close) ==
    IF ema_20 > ema_50 /\ ema_50 > ema_50
    THEN (IF adx > 30 THEN 60 ELSE 40)
    ELSE IF ema_20 < ema_50
    THEN (IF adx > 30 THEN -60 ELSE -40)
    ELSE IF adx > 25
    THEN (IF close > ema_50 THEN 20 ELSE -20)
    ELSE (IF close > ema_50 THEN 10 ELSE -10)

\* 2. momentum: the RSI band, then the MACD confirmation.
momentum_score(rsi, macd, macd_signal) ==
    (IF rsi > 70 THEN -20
     ELSE IF rsi > 60 THEN 15
     ELSE IF rsi > 50 THEN 25
     ELSE IF rsi > 40 THEN -15
     ELSE IF rsi < 30 THEN 20
     ELSE -25)
    + (IF macd > macd_signal THEN 20 ELSE -20)

\* 3. volatility: bb_position = (close - bb_lower) / bb_range, 0.5 for an
\* empty range; `bb_position > 0.85` is decided on the cross product.
volatility_score(close, bb_upper, bb_lower) ==
    LET bb_range == bb_upper - bb_lower
        num == IF bb_range > 0 THEN 100 * (close - bb_lower) ELSE 50
        den == IF bb_range > 0 THEN bb_range ELSE 1
    IN IF num > 85 * den THEN -25
       ELSE IF num > 70 * den THEN -10
       ELSE IF num < 15 * den THEN 25
       ELSE IF num < 30 * den THEN 10
       ELSE 5

\* 4. volume: volume_ratio = current_volume / volume_sma, 1 for a zero
\* average; the sign follows close against prev_close.
volume_score(current_volume, volume_sma, close, prev_close) ==
    LET num == IF volume_sma > 0 THEN 10 * current_volume ELSE 10
        den == IF volume_sma > 0 THEN volume_sma ELSE 1
        up == close > prev_close
    IN IF num > 18 * den THEN (IF up THEN 30 ELSE -30)
       ELSE IF num > 15 * den THEN (IF up THEN 20 ELSE -20)
       ELSE IF num > 11 * den THEN (IF up THEN 10 ELSE -10)
       ELSE -5

\* 5. structure: close against vwap and bb_middle.
structure_score(close, vwap, bb_middle) ==
    IF close > vwap /\ close > bb_middle THEN 30
    ELSE IF close > vwap THEN 15
    ELSE IF close < vwap /\ close < bb_middle THEN -30
    ELSE -15

\* Grids of indicator values: every threshold the code compares with, its
\* two neighbours, and values between.
Levels == 1..3
AdxGrid == {15, 19, 20, 21, 25, 26, 30, 31, 35, 36}
RsiGrid == {10, 14, 15, 29, 30, 35, 40, 41, 50, 51, 60, 61, 70, 71, 85, 86, 90}
PositionGrid == {0, 14, 15, 29, 30, 50, 70, 71, 85, 86, 100}
VolumeGrid == {0, 10, 11, 12, 15, 16, 18, 19}

\* The values each dimension score takes over the grids.
TrendScores ==
    {trend_score(e20, e50, a, c) : e20 \in Levels, e50 \in Levels,
                                   a \in AdxGrid, c \in Levels}
MomentumScores ==
    {momentum_score(r, m, 0) : r \in RsiGrid, m \in {-1, 0, 1}}
VolatilityScores ==
    {volatility_score(c, 100, 0) : c \in PositionGrid}
        \cup {volatility_score(c, 100, 100) : c \in PositionGrid}
VolumeScores ==
    {volume_score(v, sma, c, prev) : v \in VolumeGrid, sma \in {0, 10},
                                     c \in Levels, prev \in Levels}
StructureScores ==
    {structure_score(c, v, m) : c \in Levels, v \in Levels, m \in Levels}

\* self.weights, in hundredths, in the order of the dict `scores`.
weights ==
    [trend |-> 30, momentum |-> 25, volatility |-> 15, volume |-> 15,
     structure |-> 15]

\* sum(scores[k] * self.weights[k] for k in scores), in hundredths.  (On
\* every score tuple of the sets above the float sum converts to the same
\* integer as this exact sum.)
WeightedSum(scores) ==
    scores.trend * weights.trend + scores.momentum * weights.momentum
        + scores.volatility * weights.volatility
        + scores.volume * weights.volume
        + scores.structure * weights.structure

\* int(x) of a number given in hundredths: the fraction is cut off, toward
\* zero.
IntFloor(x) == x \div 100
IntOf(x) == IF x >= 0 THEN x \div 100 ELSE -((-x) \div 100)

\* final_score = max(-100, min(100, int(final_score)))
final_score(scores) == Max(-100, Min(100, IntOf(WeightedSum(scores))))

\* The signal class of a final score: the chain of `>` tests.
signal_type_inclusive(score) ==
    IF score >= 65 THEN "strong_buy"
    ELSE IF score >= 25 THEN "buy"
    ELSE IF score >= -25 THEN "neutral"
    ELSE IF score >= -65 THEN "sell"
    ELSE "strong_sell"
signal_type(score) ==
    IF score > 65 THEN "strong_buy"
    ELSE IF score > 25 THEN "buy"
    ELSE IF score > -25 THEN "neutral"
    ELSE IF score > -65 THEN "sell"
    ELSE "strong_sell"

\* confidence: the larger group of same-sign factor impacts over the number
\* of factors, as int(50 + agreement * 50), and the boost of strong signals.
confidence_from60(impacts, score) ==
    LET bullish_factors == Cardinality({i \in DOMAIN impacts : impacts[i] > 0})
        bearish_factors == Cardinality({i \in DOMAIN impacts : impacts[i] < 0})
        base_confidence ==
            IntOf(5000 + (5000 * Max(bullish_factors, bearish_factors))
                            \div Len(impacts))
    IN IF Abs(score) >= 60 THEN Min(100, base_confidence + 15)
       ELSE base_confidence
confidence(impacts, score) ==
    LET bullish_factors == Cardinality({i \in DOMAIN impacts : impacts[i] > 0})
        bearish_factors == Cardinality({i \in DOMAIN impacts : impacts[i] < 0})
        base_confidence ==
            IntOf(5000 + (5000 * Max(bullish_factors, bearish_factors))
                            \div Len(impacts))
    IN IF Abs(score) > 60 THEN Min(100, base_confidence + 15)
       ELSE base_confidence

\* _detect_regime with the medium band opening at 20 instead of 25.
detect_regime_from20(adx, rsi, trend) ==
    IF adx > 35 /\ trend > 30 THEN "trending_up"
    ELSE IF adx > 35 /\ trend < -30 THEN "trending_down"
    ELSE IF ~(adx > 35) /\ adx > 20 /\ Abs(trend) > 20 THEN "breakout"
    ELSE IF adx < 20 THEN "ranging"
    ELSE IF Abs(rsi - 50) > 35 THEN "reversal"
    ELSE "breakout"

\* _detect_regime(ind, scores): an `if` that returns only inside its inner
\* tests and otherwise falls through to the tests below it.
detect_regime(adx, rsi, trend) ==
    IF adx > 35 /\ trend > 30 THEN "trending_up"
    ELSE IF adx > 35 /\ trend < -30 THEN "trending_down"
    ELSE IF ~(adx > 35) /\ adx > 25 /\ Abs(trend) > 20 THEN "breakout"
    ELSE IF adx < 20 THEN "ranging"
    ELSE IF Abs(rsi - 50) > 35 THEN "reversal"
    ELSE "breakout"

\* Signal.score: -100 to 100.
ScoreRange == -100..100

\* Arguments the blocks of SignalEngine.analyze are followed with.
ScoreArgs ==
    {[fn |-> "final_score",
      scores |-> [trend |-> t, momentum |-> m, volatility |-> v,
                  volume |-> vo, structure |-> st]] :
        t \in TrendScores, m \in MomentumScores, v \in VolatilityScores,
        vo \in VolumeScores, st \in StructureScores}
SignalArgs == {[fn |-> "signal_type", final_score |-> x] : x \in ScoreRange}
ConfidenceArgs ==
    {[fn |-> "confidence", impacts |-> f, final_score |-> x] :
        f \in [1..5 -> {-10, 0, 10}], x \in ScoreRange}
RegimeArgs ==
    {[fn |-> "_detect_regime", adx |-> a, rsi |-> r,
      trend |-> trend_score(e20, e50, a, c)] :
        a \in AdxGrid, r \in RsiGrid, e20 \in Levels, e50 \in Levels,
        c \in Levels}

InitSignal ==
    /\ InitEngine
    /\ args \in ScoreArgs \cup SignalArgs \cup ConfidenceArgs \cup RegimeArgs
    /\ ret = NoRet

\* analyze, lines 474-476: the weighted final score.
AnalyzeScore ==
    /\ args.fn = "final_score"
    /\ ret = NoRet
    /\ ret' = [fn |-> "final_score", score |-> final_score(args.scores)]
    /\ UNCHANGED <<engineVars, args, tasks>>

\* analyze, lines 478-488: the signal class.
AnalyzeSignalType ==
    /\ args.fn = "signal_type"
    /\ ret = NoRet
    /\ ret' = [fn |-> "signal_type", type |-> signal_type(args.final_score)]
    /\ UNCHANGED <<engineVars, args, tasks>>

\* analyze, lines 490-500: the confidence.
AnalyzeConfidence ==
    /\ args.fn = "confidence"
    /\ ret = NoRet
    /\ ret' = [fn |-> "confidence",
               confidence |-> confidence(args.impacts, args.final_score)]
    /\ UNCHANGED <<engineVars, args, tasks>>

\* analyze, line 511: regime = self._detect_regime(indicators, scores).
DetectRegime ==
    /\ args.fn = "_detect_regime"
    /\ ret = NoRet
    /\ ret' = [fn |-> "_detect_regime",
               regime |-> detect_regime(args.adx, args.rsi, args.trend)]
    /\ UNCHANGED <<engineVars, args, tasks>>

NextSignal ==
    \/ AnalyzeScore
    \/ AnalyzeSignalType
    \/ AnalyzeConfidence
    \/ DetectRegime

SpecSignal == InitSignal /\ [][NextSignal]_vars

\* ------------------------------------- SignalEngine on indicator bundles

\* analyze, lines 314-488: the five dimension scores of one indicator bundle
\* a (with the last two closes and the last volume), the final score and the
\* signal class.
analyze(a) ==
    LET scores ==
            [trend |-> trend_score(a.ema_20, a.ema_50, a.adx, a.close),
             momentum |-> momentum_score(a.rsi, a.macd, a.macd_signal),
             volatility |-> volatility_score(a.close, a.bb_upper, a.bb_lower),
             volume |-> volume_score(a.current_volume, a.volume_sma,
                                     a.close, a.prev_close),
             structure |-> structure_score(a.close, a.vwap, a.bb_middle)]
    IN [fn |-> "analyze", scores |-> scores, score |-> final_score(scores),
        type |-> signal_type(final_score(scores))]

\* Bundles around the thresholds of the five dimensions: prices on a scale
\* of 0..4 with the long average, the band middle and the previous close at
\* 2.
GridBundles ==
    {[fn |-> "analyze", ema_20 |-> e20, ema_50 |-> 2, adx |-> x,
      close |-> c, prev_close |-> 2, rsi |-> r, macd |-> m,
      macd_signal |-> 0, bb_upper |-> 4, bb_lower |-> 0, bb_middle |-> 2,
      vwap |-> vw, current_volume |-> v, volume_sma |-> 10] :
        e20 \in Levels, x \in {25, 26, 30, 31}, c \in {1, 3},
        r \in {29, 45, 55, 65, 71}, m \in {-1, 0, 1}, vw \in {1, 3},
        v \in {10, 19}}

\* calculate on 500 candles whose close rises by 1 per candle from 1 to 500
\* with high = low = close and a constant volume of 10; prices in tenths.
\* The averages trail the close by (period - 1) / 2: ema_20 = 490.5,
\* ema_50 = 475.5, bb_middle = 490.5; the bands are 2 deviations of 20
\* consecutive closes (5.77) away; vwap is the mean close 250.5; every move
\* is up, so rsi = adx = 100; macd and its signal line both stand at 7.5,
\* and their float comparison is drawn both ways.
RisingBundles ==
    {[fn |-> "analyze", ema_20 |-> 4905, ema_50 |-> 4755, adx |-> 100,
      close |-> 5000, prev_close |-> 4990, rsi |-> 100, macd |-> m,
      macd_signal |-> 75, bb_upper |-> 5020, bb_lower |-> 4790,
      bb_middle |-> 4905, vwap |-> 2505, current_volume |-> 10,
      volume_sma |-> 10] : m \in {75, 76}}

AnalyzeArgs == GridBundles \cup RisingBundles

InitAnalyze ==
    /\ InitEngine
    /\ args \in AnalyzeArgs
    /\ ret = NoRet

\* SignalEngine.analyze(df, indicators).
Analyze ==
    /\ args.fn = "analyze"
    /\ ret = NoRet
    /\ ret' = analyze(args)
    /\ UNCHANGED <<engineVars, args, tasks>>

NextAnalyze == Analyze

SpecAnalyze == InitAnalyze /\ [][NextAnalyze]_vars

\* ----------------------------------------------------------- RiskManager
\* Sizes are in hundredths (0.8 is 80), ATR percent in hundredths of a
\* percent (2.5 % is 250), confidence in whole percent.

\* calculate_risk, lines 549-560: the volatility state of an ATR percent.
volatility_state(atr_percent) ==
    IF atr_percent < 100 THEN "low"
    ELSE IF atr_percent < 250 THEN "normal"
    ELSE IF atr_percent < 400 THEN "high"
    ELSE "extreme"

\* calculate_risk, lines 549-560: the size each volatility state starts from.
base_size(atr_percent) ==
    IF atr_percent < 100 THEN 100
    ELSE IF atr_percent < 250 THEN 80
    ELSE IF atr_percent < 400 THEN 50
    ELSE 25

\* round(position_size, 2) where the exact product lies halfway between two
\* hundredths: the <<base size, confidence>> pairs whose double product
\* rounds to the upper hundredth; the other halfway products round to the
\* lower one.
HalfwayRoundsUp ==
    {<<100, 1>>, <<100, 5>>, <<100, 7>>, <<100, 11>>, <<100, 13>>,
     <<100, 17>>, <<100, 19>>, <<100, 23>>, <<100, 27>>, <<100, 33>>,
     <<100, 39>>, <<100, 45>>, <<100, 51>>, <<100, 53>>, <<100, 55>>,
     <<50, 2>>, <<50, 10>>, <<50, 14>>, <<50, 22>>, <<50, 26>>, <<50, 34>>,
     <<50, 38>>, <<50, 46>>, <<50, 54>>, <<50, 63>>, <<50, 65>>,
     <<50, 67>>, <<50, 75>>, <<50, 77>>, <<50, 79>>, <<50, 81>>,
     <<50, 89>>, <<50, 91>>, <<50, 93>>, <<25, 4>>, <<25, 20>>, <<25, 28>>,
     <<25, 44>>, <<25, 52>>, <<25, 66>>, <<25, 78>>, <<25, 90>>}

\* The product base * confidence / 100 (* 0.5) in units of 1/20000.
SizeProduct(base, conf) == base * conf * (IF conf < 60 THEN 1 ELSE 2)

\* calculate_risk with the low-confidence halving applied up to 60 included.
position_size_upto60(atr_percent, conf) ==
    LET base == base_size(atr_percent)
        p == base * conf * (IF conf <= 60 THEN 1 ELSE 2)
        q == p \div 200
        rest == p % 200
    IN IF rest > 100 \/ (rest = 100 /\ <<base, conf>> \in HalfwayRoundsUp)
       THEN q + 1 ELSE q

\* calculate_risk, lines 562-575: position_size *= confidence / 100, halved
\* again below 60, then round(position_size, 2).
position_size(atr_percent, conf) ==
    LET base == base_size(atr_percent)
        p == SizeProduct(base, conf)
        q == p \div 200
        rest == p % 200
    IN IF rest > 100 \/ (rest = 100 /\ <<base, conf>> \in HalfwayRoundsUp)
       THEN q + 1 ELSE q

\* ATR percents on both sides of every tier boundary.
AtrPercentGrid == {0, 1, 99, 100, 101, 249, 250, 251, 399, 400, 401, 1200}

\* Signal.confidence: 0-100.
ConfidenceRange == 0..100

RiskArgs ==
    {[fn |-> "calculate_risk", atr_percent |-> a, confidence |-> c] :
        a \in AtrPercentGrid, c \in ConfidenceRange}

InitRisk ==
    /\ InitEngine
    /\ args \in RiskArgs
    /\ ret = NoRet

\* RiskManager.calculate_risk(df, indicators, signal).
calculate_risk ==
    /\ args.fn = "calculate_risk"
    /\ ret = NoRet
    /\ ret' = [fn |-> "calculate_risk",
               volatility_state |-> volatility_state(args.atr_percent),
               recommended_position_size |->
                   position_size(args.atr_percent, args.confidence)]
    /\ UNCHANGED <<engineVars, args, tasks>>

NextRisk == calculate_risk

SpecRisk == InitRisk /\ [][NextRisk]_vars

\* ------------------------------------------------------ EntryPointFinder
\* Prices and the ATR are in cents and already at two decimals; the ATR is a
\* multiple of ten cents, so every ATR multiple below is a whole number of
\* cents and round(x, 2) leaves it as it is.  Win rates are summed in
\* hundredths of a point.

\* _calculate_win_rate, lines 625-633: the bonus of the reward/risk ratio.
rrr_bonus(risk, reward) ==
    IF ~(risk > 0) THEN 0
    ELSE IF 2 * reward > 5 * risk THEN 1200
    ELSE IF reward > 2 * risk THEN 1000
    ELSE IF 2 * reward > 3 * risk THEN 800
    ELSE IF reward > risk THEN 500
    ELSE 0

\* _calculate_win_rate, lines 611-614 and 623-663: the rate summed from the
\* confidence, the reward/risk bonus, the index, the volume, the tier and the
\* oscillator, clamped and cut to an integer.  a holds the indicators, the
\* volumes and the signal.
win_rate_of(entry_type, risk, reward, a) ==
    LET base_rate ==
            5000 + (a.confidence - 50) * 15
            + rrr_bonus(risk, reward)
            + (IF a.adx > 30 THEN 800 ELSE IF a.adx < 20 THEN -500 ELSE 0)
            + (IF 40 * a.volume > 3 * (19 * a.prev_volume + a.volume)
               THEN 800 ELSE 0)
            + (IF entry_type = "primary" THEN 500
               ELSE IF entry_type = "aggressive" THEN -300 ELSE 0)
            + (IF a.rsi < 30 \/ a.rsi > 70 THEN 1000
               ELSE IF a.rsi < 40 \/ a.rsi > 60 THEN 500 ELSE 0)
    IN Min(9500, Max(2000, base_rate)) \div 100

\* _calculate_win_rate.  entry_type is the tier ("aggressive", "secondary",
\* "primary") at every call, and the test of line 618 compares it with "BUY".
calculate_win_rate(entry_type, entry_price, tp_price, sl_price, a) ==
    LET risk == IF entry_type = "BUY" THEN entry_price - sl_price
                ELSE sl_price - entry_price
        reward == IF entry_type = "BUY" THEN tp_price - entry_price
                  ELSE entry_price - tp_price
    IN win_rate_of(entry_type, risk, reward, a)

\* EntryPoint(...), without the texts.
EntryPoint(type, order_type, strength, price, tp_price, sl_price, a) ==
    [type |-> type, order_type |-> order_type, strength |-> strength,
     price |-> price, tp_price |-> tp_price, sl_price |-> sl_price,
     win_rate |-> calculate_win_rate(type, price, tp_price, sl_price, a)]

\* _find_buy_entries: lower band, EMA-20, VWAP, current price - 0.6 ATR.
find_buy_entries(a) ==
    LET atr == a.atr
        entry_1_price == a.bb_lower
        entry_1_strength == IF a.confidence > 75 THEN 90 ELSE 80
        entry_3_price == a.vwap
        entry_3_strength == IF a.confidence > 70 THEN 88 ELSE 75
        entry_4_price == a.current_price - (atr * 6) \div 10
    IN << EntryPoint("aggressive", "BUY",
                     IF Abs(entry_1_price - a.vwap) < atr
                     THEN Min(98, entry_1_strength + 5)
                     ELSE entry_1_strength,
                     entry_1_price, entry_1_price + atr * 3,
                     entry_1_price - (atr * 12) \div 10, a),
          EntryPoint("secondary", "BUY",
                     IF a.confidence > 75 THEN 85 ELSE 70,
                     a.ema_20, a.ema_20 + (atr * 28) \div 10,
                     a.ema_20 - atr, a),
          EntryPoint("primary", "BUY",
                     IF 2 * Abs(entry_3_price - a.bb_middle) < atr
                     THEN Min(98, entry_3_strength + 3)
                     ELSE entry_3_strength,
                     entry_3_price, entry_3_price + atr * 3,
                     entry_3_price - (atr * 11) \div 10, a),
          EntryPoint("primary", "BUY",
                     IF a.confidence > 65 THEN 75 ELSE 60,
                     entry_4_price, entry_4_price + (atr * 25) \div 10,
                     entry_4_price - (atr * 8) \div 10, a) >>

\* _find_sell_entries: upper band, EMA-20, VWAP, current price + 0.6 ATR.
find_sell_entries(a) ==
    LET atr == a.atr
        entry_1_price == a.bb_upper
        entry_1_strength == IF a.confidence > 75 THEN 90 ELSE 80
        entry_3_price == a.vwap
        entry_3_strength == IF a.confidence > 70 THEN 88 ELSE 75
        entry_4_price == a.current_price + (atr * 6) \div 10
    IN << EntryPoint("aggressive", "SELL",
                     IF Abs(entry_1_price - a.vwap) < atr
                     THEN Min(98, entry_1_strength + 5)
                     ELSE entry_1_strength,
                     entry_1_price, entry_1_price - atr * 3,
                     entry_1_price + (atr * 12) \div 10, a),
          EntryPoint("secondary", "SELL",
                     IF a.confidence > 75 THEN 85 ELSE 70,
                     a.ema_20, a.ema_20 - (atr * 28) \div 10,
                     a.ema_20 + atr, a),
          EntryPoint("primary", "SELL",
                     IF 2 * Abs(entry_3_price - a.bb_middle) < atr
                     THEN Min(98, entry_3_strength + 3)
                     ELSE entry_3_strength,
                     entry_3_price, entry_3_price - atr * 3,
                     entry_3_price + (atr * 11) \div 10, a),
          EntryPoint("primary", "SELL",
                     IF a.confidence > 65 THEN 75 ELSE 60,
                     entry_4_price, entry_4_price - (atr * 25) \div 10,
                     entry_4_price + (atr * 8) \div 10, a) >>

\* find_entries with the neutral branch leaving the strengths as they are.
generated_entries_unhalved(a) ==
    IF a.type \in {"strong_buy", "buy"} THEN find_buy_entries(a)
    ELSE IF a.type \in {"strong_sell", "sell"} THEN find_sell_entries(a)
    ELSE find_buy_entries(a) \o find_sell_entries(a)

\* find_entries, lines 588-600: the candidates before they are ranked.
generated_entries(a) ==
    IF a.type \in {"strong_buy", "buy"} THEN find_buy_entries(a)
    ELSE IF a.type \in {"strong_sell", "sell"} THEN find_sell_entries(a)
    ELSE LET both == find_buy_entries(a) \o find_sell_entries(a)
         IN [i \in DOMAIN both |->
                [both[i] EXCEPT !.strength = Max(30, both[i].strength \div 2)]]

\* The sort key compared on the strength before the win rate.
key_less_strength_first(x, y) ==
    \/ x.strength < y.strength
    \/ x.strength = y.strength /\ x.win_rate < y.win_rate

\* key=lambda x: (x.win_rate, x.strength): the key of x is below that of y.
key_less(x, y) ==
    \/ x.win_rate < y.win_rate
    \/ x.win_rate = y.win_rate /\ x.strength < y.strength

\* One entry put into a list sorted best first, behind the entries whose
\* key is not below its own.
InsertEntry(sorted, e) ==
    LET below == {i \in DOMAIN sorted : key_less(sorted[i], e)}
        at == IF below = {} THEN Len(sorted) + 1
              ELSE CHOOSE i \in below : \A j \in below : i <= j
    IN SubSeq(sorted, 1, at - 1) \o <<e>> \o SubSeq(sorted, at, Len(sorted))

\* entries.sort(key=..., reverse=True): stable, equal keys keep their order.
RECURSIVE sort_entries(_)
sort_entries(entries) ==
    IF entries = <<>> THEN <<>>
    ELSE InsertEntry(sort_entries(SubSeq(entries, 1, Len(entries) - 1)),
                     entries[Len(entries)])

\* find_entries: the ranked candidates, entries[:3].
find_entries(a) ==
    LET entries == sort_entries(generated_entries(a))
    IN SubSeq(entries, 1, Min(3, Len(entries)))

SignalTypes == {"strong_buy", "buy", "neutral", "sell", "strong_sell"}

\* Input values on both sides of every threshold the finder tests.
EntryConfidenceGrid == {0, 50, 65, 66, 70, 71, 75, 76, 100}
EntryAdxGrid == {19, 20, 30, 31}
EntryRsiGrid == {29, 30, 39, 40, 60, 61, 70, 71}
EntryVolumeGrid == {20, 30, 31}
AtrGrid == {0, 10, 100}

EntryArgs ==
    {[fn |-> "find_entries", type |-> t, confidence |-> c, adx |-> x,
      rsi |-> r, volume |-> v, prev_volume |-> 20, atr |-> atr,
      bb_upper |-> bu, bb_lower |-> bl, bb_middle |-> 10000, vwap |-> vw,
      ema_20 |-> 10010, current_price |-> 10005] :
        t \in SignalTypes, c \in EntryConfidenceGrid, x \in EntryAdxGrid,
        r \in EntryRsiGrid, v \in EntryVolumeGrid, atr \in AtrGrid,
        bu \in {10050, 10200}, bl \in {9800, 9950}, vw \in {9990, 10040}}

InitEntries ==
    /\ InitEngine
    /\ args \in EntryArgs
    /\ ret = NoRet

\* EntryPointFinder.find_entries(df, indicators, signal, current_price);
\* generated records the candidates as they were before the sort.
FindEntries ==
    /\ args.fn = "find_entries"
    /\ ret = NoRet
    /\ ret' = [fn |-> "find_entries",
               generated |-> generated_entries(args),
               entries |-> find_entries(args)]
    /\ UNCHANGED <<engineVars, args, tasks>>

NextEntries == FindEntries

SpecEntries == InitEntries /\ [][NextEntries]_vars

\* -------------------------------------------------------- SessionDetector

\* get_current_session with the London window tested before the overlap.
get_current_session_london_first(hr) ==
    IF 8 <= hr /\ hr < 16 THEN "london"
    ELSE IF 13 <= hr /\ hr < 16 THEN "overlap"
    ELSE IF 13 <= hr /\ hr < 21 THEN "new_york"
    ELSE IF 0 <= hr /\ hr < 8 THEN "asian"
    ELSE "closed"

\* get_current_session, lines 929-938: the chain of window tests on the
\* UTC hour.
get_current_session(hr) ==
    IF 13 <= hr /\ hr < 16 THEN "overlap"
    ELSE IF 8 <= hr /\ hr < 16 THEN "london"
    ELSE IF 13 <= hr /\ hr < 21 THEN "new_york"
    ELSE IF 0 <= hr /\ hr < 8 THEN "asian"
    ELSE "closed"

\* datetime.now(timezone.utc): every hour of the day, at the start, the
\* middle and the last minute of the hour.
UtcNow ==
    {[fn |-> "get_current_session", hour |-> h, minute |-> m] :
        h \in 0..23, m \in {0, 30, 59}}

InitSession ==
    /\ InitEngine
    /\ args \in UtcNow
    /\ ret = NoRet

\* SessionDetector.get_current_session().
GetCurrentSession ==
    /\ args.fn = "get_current_session"
    /\ ret = NoRet
    /\ ret' = [fn |-> "get_current_session",
               session |-> get_current_session(args.hour)]
    /\ UNCHANGED <<engineVars, args, tasks>>

NextSession == GetCurrentSession

SpecSession == InitSession /\ [][NextSession]_vars

\* ------------------------------------- QuantEngine, start and stop again
\* start() and stop() called in any order on one engine.  Each start()
\* creates one _analysis_loop task; tasks[i] is where the i-th stands:
\* "while" (about to test self.running), "cycle" (inside
\* _update_all_symbols), "sleep" (inside asyncio.sleep(5)) or "done".

\* Number of start() calls followed.
MaxStarts == 3

\* The tasks that have not left their loop.
ActiveLoops == {i \in DOMAIN tasks : tasks[i] # "done"}

\* QuantEngine.start(): data_feed.start() opens a new session and backfills,
\* then running = True and create_task(self._analysis_loop()); nothing tests
\* whether a loop exists.  (running changes only after the awaits, so a loop
\* step taken during them sees what it would see before the call.)
StartAgain ==
    /\ Len(tasks) < MaxStarts
    /\ session' = "open"
    /\ running' = TRUE
    /\ tasks' = Append(tasks, "while")
    /\ UNCHANGED <<pc, idx, cycle, fetchPending, feedVars, subVars, bcastVars,
                   cycVars, snap, callVars>>

\* QuantEngine.stop(): running = False, then the session is closed; the
\* loop tasks are neither cancelled nor awaited.
StopAgain ==
    /\ running' = FALSE
    /\ session' = IF session = "none" THEN "none" ELSE "closed"
    /\ UNCHANGED <<pc, idx, cycle, fetchPending, feedVars, subVars, bcastVars,
                   cycVars, snap, callVars, tasks>>

\* `while self.running:` of task i.
TaskWhile(i) ==
    /\ tasks[i] = "while"
    /\ tasks' = [tasks EXCEPT ![i] = IF running THEN "cycle" ELSE "done"]
    /\ UNCHANGED <<engineVars, callVars>>

\* _update_all_symbols of task i returns or raises; either way the task
\* goes on to asyncio.sleep(5).
TaskCycleEnds(i) ==
    /\ tasks[i] = "cycle"
    /\ tasks' = [tasks EXCEPT ![i] = "sleep"]
    /\ UNCHANGED <<engineVars, callVars>>

\* asyncio.sleep(5) of task i returns.
TaskWakes(i) ==
    /\ tasks[i] = "sleep"
    /\ tasks' = [tasks EXCEPT ![i] = "while"]
    /\ UNCHANGED <<engineVars, callVars>>

NextRestart ==
    \/ StartAgain
    \/ StopAgain
    \/ \E i \in DOMAIN tasks : TaskWhile(i)
    \/ \E i \in DOMAIN tasks : TaskCycleEnds(i)
    \/ \E i \in DOMAIN tasks : TaskWakes(i)

SpecRestart == Init /\ [][NextRestart]_vars

\* ------------------------------------------------------------------ claims

Count(seq, x) == Cardinality({i \in DOMAIN seq : seq[i] = x})

\* C1: at the end of a refresh cycle every instrument whose candle fetch and
\* price fetch succeeded, that holds at least MinCandles candles and whose
\* analysis did not raise has been analysed and handed to _broadcast in that
\* cycle, whatever failed or raised for the other instruments.
C1_OthersStillAnalysed ==
    pc = "sleep" =>
        \A s \in SymbolSet :
            (/\ kl[s] = "ok"
             /\ Len(history[s]) >= MinCandles
             /\ res[s] \notin {"noprice", "raise"}) => res[s] = "result"

\* C1 witness: the first instrument's analysis raised and the second one was
\* still analysed and broadcast in the same cycle.
C1_Witness ==
    /\ pc = "sleep"
    /\ res[symbols[1]] = "raise"
    /\ kl[symbols[2]] = "ok"
    /\ res[symbols[2]] = "result"

\* C2 (as claimed): a broadcast during which a subscriber connected or
\* disconnected does not abort, and has attempted the send to every
\* subscriber that was registered at its start and is still registered.
C2_BroadcastToleratesRace ==
    (bEnd.ended /\ bEnd.raced) =>
        /\ ~bEnd.aborted
        /\ (bEnd.start \cap bEnd.after) \subseteq Range(bEnd.attempts)

\* C3: a broadcast that no connect or disconnect raced with calls send_json
\* at most once per websocket and only on registered ones, and leaves the
\* registry equal to the registry at its start minus the websockets whose
\* send raised.
C3_BroadcastDropsOnlyFailed ==
    (bEnd.ended /\ ~bEnd.raced) =>
        /\ \A i, j \in DOMAIN bEnd.attempts :
               i # j => bEnd.attempts[i] # bEnd.attempts[j]
        /\ Range(bEnd.attempts) \subseteq bEnd.start
        /\ bEnd.failed \subseteq Range(bEnd.attempts)
        /\ bEnd.after = bEnd.start \ bEnd.failed

\* C3 witness: an unraced broadcast to two subscribers ended with one send
\* failed and one subscriber kept.
C3_Witness ==
    /\ bEnd.ended
    /\ ~bEnd.raced
    /\ Cardinality(bEnd.start) = 2
    /\ Cardinality(bEnd.failed) = 1
    /\ Cardinality(bEnd.after) = 1

\* C4 (as claimed): at the end of a cycle no result was produced and
\* broadcast for an instrument whose candle fetch or price fetch failed in
\* that cycle.
C4_FailedFetchSkipsInstrument ==
    pc = "sleep" =>
        \A s \in SymbolSet :
            (kl[s] = "fail" \/ res[s] = "noprice") => res[s] # "result"

\* C5: while the for loop of a cycle analyses or broadcasts, no candle
\* refresh of that cycle is still pending.
C5_AnalysisAfterAllRefreshes ==
    pc \in {"price", "send"} => fetchPending = {}

\* C5 witness: the analysis phase of a cycle has begun after one refresh
\* succeeded and another failed.
C5_Witness ==
    /\ pc = "price"
    /\ cycle >= 1
    /\ kl[symbols[1]] = "fail"
    /\ kl[symbols[2]] = "ok"

\* C6 (as claimed): every snapshot get_ohlcv_array takes, in the cycle or in
\* a pull-style query, is a completely stored buffer content: the content
\* before the refresh or the whole answer after it, never a cleared or partly
\* refilled buffer.
C6_NoTornSnapshot ==
    snap.sym # "none" => snap.data = whole[snap.sym]

\* C7: a cycle always ends in the sleep, the loop leaves the sleep of a cycle
\* with a failure (candle fetch, price fetch, insufficient history, analysis
\* error, send failure) only to start the next cycle while running is set,
\* and the loop has exited only if stop() cleared running.
C7_LoopSurvivesFailures ==
    /\ [][/\ (pc \in {"price", "send"} => pc' \in {"price", "send", "sleep"})
          /\ ((pc = "sleep" /\ running /\ CycleFailed /\ pc' # pc)
                => (pc' = "gather" /\ cycle' = cycle + 1))]_vars
    /\ [](pc = "exited" => ~running)

\* C7 witness: the loop has started its second cycle after a cycle with a
\* failure.
C7_Witness ==
    /\ pc = "gather"
    /\ cycle = 2
    /\ prevFailed
    /\ running

\* C8: once stop() has been called no new cycle starts; once the loop has
\* exited nothing is pending and nothing is fetched, stored or delivered.
C8_NoCycleAfterStop ==
    /\ [][(stopPc # "none") => cycle' = cycle]_vars
    /\ [][(pc = "exited") =>
            (pc' = "exited" /\ history' = history /\ inbox' = inbox
             /\ fetchPending' = fetchPending /\ inflight' = inflight)]_vars
    /\ [](pc = "exited" => (fetchPending = {} /\ inflight = {}))

\* C8 witness: stop() was called while a cycle was in flight, the cycle ran to
\* its end and the loop exited.
C8_Witness ==
    /\ pc = "exited"
    /\ stopPc \in {"gather", "price", "send"}
    /\ cycle >= 1

\* C9 (as claimed): at the end of a cycle a subscriber that was registered
\* from the cycle's start to its end and had no failed send has received
\* exactly one result of this cycle for each instrument analysed in it, and
\* none for a skipped instrument.
C9_ExactlyOncePerCycle ==
    pc = "sleep" =>
        \A w \in steady, s \in SymbolSet :
            Count(inbox[w], [sym |-> s, cycle |-> cycle])
                = IF res[s] = "result" THEN 1 ELSE 0

\* C10: in every subscriber's inbox the results of one instrument stand in
\* the order of their cycles.
C10_PerInstrumentCycleOrder ==
    \A w \in Subs :
        \A i, j \in DOMAIN inbox[w] :
            (i < j /\ inbox[w][i].sym = inbox[w][j].sym)
                => inbox[w][i].cycle <= inbox[w][j].cycle

\* C10 witness: a subscriber has received results of two different cycles for
\* one instrument.
C10_Witness ==
    \E w \in Subs :
        \E i, j \in DOMAIN inbox[w] :
            /\ i < j
            /\ inbox[w][i].sym = inbox[w][j].sym
            /\ inbox[w][i].cycle < inbox[w][j].cycle

\* Index in symbols of the broadcast that bEnd reports: the for loop has
\* moved on to the next symbol, or past the last one into the sleep.
EndedIdx == IF idx = 0 THEN Len(symbols) ELSE idx - 1

\* Websockets whose client has received the result of symbol i of this cycle.
Delivered(i) ==
    {w \in Subs : [sym |-> symbols[i], cycle |-> cycle] \in Range(inbox[w])}

\* C11 (as claimed): when the broadcast during which stop() was called has
\* ended, its result has reached every subscriber that was registered from
\* its start to its end and had no failed send, or it has reached nobody.
C11_StopNeverSplitsBroadcast ==
    (bEnd.ended /\ stopPc = "send" /\ EndedIdx = stopIdx) =>
        \/ Delivered(stopIdx) = {}
        \/ ((bEnd.start \cap bEnd.after) \ bEnd.failed) \subseteq Delivered(stopIdx)

\* C12 (as claimed): a pull-style query is answered with the serialized
\* result or with an explicit error, never with a fault.
C12_PullNeverFaults ==
    ret.fn = "get_snapshot" => ret.reply \in {"result", "error"}

\* Strictly ascending open times: ordered, and no candle twice.
StrictlyAscending(q) == \A i \in 1..(Len(q) - 1) : q[i] < q[i + 1]

C14_NotEnoughDataSkips ==
    /\ snap.sym # "none" =>
          (res[snap.sym] = "nodata" <=> Len(snap.data) < MinCandles)
    /\ \A s \in SymbolSet :
          res[s] = "nodata" =>
              /\ \A m \in inflight : ~(m.sym = s /\ m.cycle = cycle)
              /\ \A w \in Subs :
                    [sym |-> s, cycle |-> cycle] \notin Range(inbox[w])
    /\ (snap.sym # "none" /\ res[snap.sym] = "nodata") =>
          /\ pc = AdvancePc(EndedIdx)
          /\ idx = AdvanceIdx(EndedIdx)

\* C14 witness: with a subscriber registered, the first instrument had one
\* candle too few and was skipped, and the loop stands at the second.
C14_Witness ==
    /\ snap.sym = symbols[1]
    /\ Len(snap.data) = MinCandles - 1
    /\ res[symbols[1]] = "nodata"
    /\ active # {}
    /\ pc = "price"
    /\ idx = 2

\* C15 (as claimed): 65 is buy and 66 strong-buy, -65 is sell and -66
\* strong-sell, 25 is neutral and 26 buy.
C15_BoundariesAsClaimed ==
    ret.fn = "signal_type" =>
        /\ args.final_score = 65 => ret.type = "buy"
        /\ args.final_score = 66 => ret.type = "strong_buy"
        /\ args.final_score = -65 => ret.type = "sell"
        /\ args.final_score = -66 => ret.type = "strong_sell"
        /\ args.final_score = 25 => ret.type = "neutral"
        /\ args.final_score = 26 => ret.type = "buy"

\* C15 (amended): 65 is buy and 66 strong-buy, -64 is sell and -65
\* strong-sell, 25 is neutral and 26 buy (and -25 is sell, -24 neutral):
\* every class is an interval open below and closed above.
C15_Boundaries ==
    ret.fn = "signal_type" =>
        /\ args.final_score = 65 => ret.type = "buy"
        /\ args.final_score = 66 => ret.type = "strong_buy"
        /\ args.final_score = -64 => ret.type = "sell"
        /\ args.final_score = -65 => ret.type = "strong_sell"
        /\ args.final_score = -66 => ret.type = "strong_sell"
        /\ args.final_score = 25 => ret.type = "neutral"
        /\ args.final_score = 26 => ret.type = "buy"
        /\ args.final_score = -25 => ret.type = "sell"
        /\ args.final_score = -24 => ret.type = "neutral"

\* C15 witness: the score -65 has been classified strong-sell.
C15_Witness ==
    /\ ret.fn = "signal_type"
    /\ args.final_score = -65
    /\ ret.type = "strong_sell"

\* The weighted sum in hundredths, clamped to [-100, 100].
ClampedSum(scores) == Max(-10000, Min(10000, WeightedSum(scores)))

\* The weights sum to 1.0.
WeightsSumToOne ==
    weights.trend + weights.momentum + weights.volatility + weights.volume
        + weights.structure = 100

\* C16 (as claimed): the final score is an integer in [-100, 100], the
\* weights sum to 1.0, and the final score is the integer nearest to the
\* clamped weighted sum (at most one half away from it).
C16_RoundedWeightedSum ==
    ret.fn = "final_score" =>
        /\ WeightsSumToOne
        /\ ret.score \in ScoreRange
        /\ 2 * Abs(100 * ret.score - ClampedSum(args.scores)) <= 100

\* C16 (amended): the final score is an integer in [-100, 100], the weights
\* sum to 1.0, and the final score is the clamped weighted sum with its
\* fraction cut off: it has the sign of the sum and lies less than one from
\* it, on the side of zero.
C16_TruncatedWeightedSum ==
    ret.fn = "final_score" =>
        LET sum == ClampedSum(args.scores)
        IN /\ WeightsSumToOne
           /\ ret.score \in ScoreRange
           /\ sum >= 0 => (100 * ret.score <= sum /\ sum < 100 * (ret.score + 1))
           /\ sum <= 0 => (100 * ret.score >= sum /\ sum > 100 * (ret.score - 1))

\* C16 witness: a weighted sum of -27.75 has given the final score -27.
C16_Witness ==
    /\ ret.fn = "final_score"
    /\ WeightedSum(args.scores) = -2775
    /\ ret.score = -27

\* Size of the larger group of factors whose impacts have the same sign.
MajoritySize(impacts) ==
    Max(Cardinality({i \in DOMAIN impacts : impacts[i] > 0}),
        Cardinality({i \in DOMAIN impacts : impacts[i] < 0}))

\* C17: for five factor impacts of any signs and any final score, the
\* confidence is an integer in [0, 100]; without the bonus it is
\* 50 + 50 * (majority size / 5); the bonus of 15, capped at 100, is added
\* exactly when |final score| > 60.
C17_ConfidenceFormula ==
    ret.fn = "confidence" =>
        LET k == MajoritySize(args.impacts)
            strong == args.final_score > 60 \/ args.final_score < -60
        IN /\ ret.confidence \in 0..100
           /\ ~strong => 5 * (ret.confidence - 50) = 50 * k
           /\ strong => \/ /\ 5 * (ret.confidence - 65) = 50 * k
                           /\ ret.confidence <= 100
                        \/ /\ 5 * 35 < 50 * k
                           /\ ret.confidence = 100

\* C17 witness: two agreeing factors and a score of -61 have given the
\* confidence 70 + 15.
C17_Witness ==
    /\ ret.fn = "confidence"
    /\ MajoritySize(args.impacts) = 2
    /\ args.final_score = -61
    /\ ret.confidence = 85

\* The regime the priority order names when the moderate band is
\* lo < index <= 35.
RegimeByPriority(lo, adx, rsi, trend) ==
    CASE adx > 35 /\ trend > 30 -> "trending_up"
      [] adx > 35 /\ trend < -30 -> "trending_down"
      [] OTHER ->
           CASE lo < adx /\ adx <= 35 /\ (trend > 20 \/ trend < -20)
                    -> "breakout"
             [] OTHER ->
                  CASE adx < 20 -> "ranging"
                    [] OTHER ->
                         IF rsi - 50 > 35 \/ 50 - rsi > 35
                         THEN "reversal" ELSE "breakout"

\* C18 as stated: the regime follows the priority order strongly trending,
\* breakout for 20 < index <= 35 with |trend factor| > 20, ranging, reversal,
\* default breakout.
C18_PriorityOrderFrom20 ==
    ret.fn = "_detect_regime" =>
        ret.regime = RegimeByPriority(20, args.adx, args.rsi, args.trend)

\* C18 as the code has it: the same priority order, with the breakout band
\* at 25 < index <= 35.
C18_PriorityOrderFrom25 ==
    ret.fn = "_detect_regime" =>
        ret.regime = RegimeByPriority(25, args.adx, args.rsi, args.trend)

\* C18 witness: an index between 20 and 25 with a trend factor of -40 and an
\* extreme oscillator has been labelled reversal.
C18_Witness ==
    /\ ret.fn = "_detect_regime"
    /\ args.adx > 20
    /\ args.adx <= 25
    /\ args.trend = -40
    /\ args.rsi > 85
    /\ ret.regime = "reversal"

\* The size the claim names for a tier, in hundredths.
TierBase(atr_percent) ==
    CASE atr_percent < 100 -> 100
      [] atr_percent >= 100 /\ atr_percent < 250 -> 80
      [] atr_percent >= 250 /\ atr_percent < 400 -> 50
      [] OTHER -> 25

\* Twenty thousand times the product the claim names.
ClaimedProduct(atr_percent, conf) ==
    IF conf < 60 THEN TierBase(atr_percent) * conf
    ELSE 2 * TierBase(atr_percent) * conf

\* C19 as stated: the recommended position size is exactly
\* base(tier) * confidence / 100, halved when confidence < 60, and lies in
\* [0, 1].
C19_ExactProduct ==
    ret.fn = "calculate_risk" =>
        /\ 200 * ret.recommended_position_size
               = ClaimedProduct(args.atr_percent, args.confidence)
        /\ ret.recommended_position_size \in 0..100

\* C19 as the code has it: the recommended position size is that product
\* rounded to a nearest hundredth, and lies in [0, 1].
C19_ProductToTwoDecimals ==
    ret.fn = "calculate_risk" =>
        LET diff == 200 * ret.recommended_position_size
                        - ClaimedProduct(args.atr_percent, args.confidence)
        IN /\ diff <= 100
           /\ -diff <= 100
           /\ ret.recommended_position_size \in 0..100

\* C19 witness: extreme volatility at confidence 61 has given 0.15, the
\* product being 0.1525.
C19_Witness ==
    /\ ret.fn = "calculate_risk"
    /\ args.atr_percent >= 400
    /\ args.confidence = 61
    /\ ret.recommended_position_size = 15

\* How many times e occurs in the sequence q.
Occurrences(q, e) == Cardinality({i \in DOMAIN q : q[i] = e})

\* C20: find_entries returns at most 3 candidates, ordered by
\* (win rate, strength) descending; they are the top 3 of the generated
\* candidates under that order; every candidate's win rate is in [20, 95].
C20_TopThreeByWinRate ==
    ret.fn = "find_entries" =>
        LET r == ret.entries
            g == ret.generated
        IN /\ Len(r) <= 3
           /\ Len(r) = 3 \/ Len(r) = Len(g)
           /\ \A i \in 1..(Len(r) - 1) :
                  \/ r[i].win_rate > r[i + 1].win_rate
                  \/ /\ r[i].win_rate = r[i + 1].win_rate
                     /\ r[i].strength >= r[i + 1].strength
           /\ \A i \in DOMAIN r : Occurrences(r, r[i]) <= Occurrences(g, r[i])
           /\ \A i \in DOMAIN g :
                  Occurrences(g, g[i]) > Occurrences(r, g[i]) =>
                      \A j \in DOMAIN r :
                          \/ g[i].win_rate < r[j].win_rate
                          \/ /\ g[i].win_rate = r[j].win_rate
                             /\ g[i].strength <= r[j].strength
           /\ \A i \in DOMAIN g : g[i].win_rate \in 20..95

\* C20 witness: eight candidates of a neutral signal have been cut to three,
\* the best at the upper clamp and the third below it.
C20_Witness ==
    /\ ret.fn = "find_entries"
    /\ Len(ret.generated) = 8
    /\ Len(ret.entries) = 3
    /\ ret.entries[1].win_rate = 95
    /\ ret.entries[3].win_rate < 95

\* The order types of the candidates of q, in order.
Sides(q) == [i \in DOMAIN q |-> q[i].order_type]

\* C21: a buy or strong-buy signal generates only BUY candidates, a sell or
\* strong-sell signal only SELL candidates, and a neutral signal the four
\* candidates of both sides, each strength replaced by
\* max(30, floor(strength / 2)).
C21_SideSelection ==
    ret.fn = "find_entries" =>
        LET g == ret.generated
            buy == find_buy_entries(args)
            sell == find_sell_entries(args)
        IN /\ args.type \in {"buy", "strong_buy"} =>
                  /\ g = buy
                  /\ Sides(g) = <<"BUY", "BUY", "BUY", "BUY">>
           /\ args.type \in {"sell", "strong_sell"} =>
                  /\ g = sell
                  /\ Sides(g) = <<"SELL", "SELL", "SELL", "SELL">>
           /\ args.type = "neutral" =>
                  /\ Sides(g) = <<"BUY", "BUY", "BUY", "BUY",
                                  "SELL", "SELL", "SELL", "SELL">>
                  /\ \A i \in 1..4 :
                         /\ 2 * g[i].strength <= buy[i].strength
                                \/ g[i].strength = 30
                         /\ 2 * g[i].strength + 1 >= buy[i].strength
                         /\ g[i].strength >= 30
                         /\ [g[i] EXCEPT !.strength = 0]
                                = [buy[i] EXCEPT !.strength = 0]
                         /\ 2 * g[i + 4].strength <= sell[i].strength
                                \/ g[i + 4].strength = 30
                         /\ 2 * g[i + 4].strength + 1 >= sell[i].strength
                         /\ g[i + 4].strength >= 30
                         /\ [g[i + 4] EXCEPT !.strength = 0]
                                = [sell[i] EXCEPT !.strength = 0]

\* C21 witness: a neutral signal has generated both sides, the lower-band
\* candidate of strength 95 standing at 47 and the limit candidate of
\* strength 75 at 37.
C21_Witness ==
    /\ ret.fn = "find_entries"
    /\ args.type = "neutral"
    /\ Len(ret.generated) = 8
    /\ find_buy_entries(args)[1].strength = 95
    /\ ret.generated[1].strength = 47
    /\ ret.generated[8].strength = 37

\* C22: the win rate of every generated candidate, buy-side as well as
\* sell-side, includes the reward/risk tier bonus of that candidate's own
\* distances, risk from the entry to the stop-loss and reward from the entry
\* to the take-profit.
C22_BonusFromOwnDistances ==
    ret.fn = "find_entries" =>
        \A i \in DOMAIN ret.generated :
            LET e == ret.generated[i]
            IN e.win_rate = win_rate_of(e.type, Abs(e.price - e.sl_price),
                                        Abs(e.tp_price - e.price), args)

\* C23: for the series whose close rises by 1 per candle for 500 candles,
\* analyze yields a positive trend factor and a buy-family signal class.
C23_RisingSeriesBuys ==
    (ret.fn = "analyze" /\ args \in RisingBundles) =>
        /\ ret.scores.trend > 0
        /\ ret.type \in {"buy", "strong_buy"}

\* C24: for every UTC hour 0..23 the session is overlap for 13-15, london
\* for 8-12, new_york for 16-20, asian for 0-7 and closed for 21-23, so the
\* overlap window wins over the two sessions it overlaps.
C24_SessionOfHour ==
    ret.fn = "get_current_session" =>
        /\ args.hour \in 13..15 <=> ret.session = "overlap"
        /\ args.hour \in 8..12 <=> ret.session = "london"
        /\ args.hour \in 16..20 <=> ret.session = "new_york"
        /\ args.hour \in 0..7 <=> ret.session = "asian"
        /\ args.hour \in 21..23 <=> ret.session = "closed"

\* C24 witness: 14:30 UTC, inside both the London and the New York window,
\* has been reported as overlap.
C24_Witness ==
    /\ ret.fn = "get_current_session"
    /\ args.hour = 14
    /\ args.minute = 30
    /\ ret.session = "overlap"

\* C25: the operations of the store on a symbol outside the feed's symbols
\* raise nothing: a refresh stores nothing, a snapshot returns an empty
\* view, and every buffer is left as it was.
C25_UnknownKeyIsNoOp ==
    /\ []((ret.fn = "get_ohlcv_array" /\ ret.symbol \notin SymbolSet) =>
              (ret.raised = "none" /\ ret.rows = <<>>))
    /\ [][(ret' # ret /\ ret'.fn # "none" /\ ret'.symbol \notin SymbolSet)
              => history' = history]_vars

\* C26: the trend factor is symmetric in direction: +40 when the short
\* average is above the long one, +60 when the index is above 30 as well;
\* -40 and -60 when it is below; the outcomes 20, 10, -10, -20 only when the
\* two averages are equal.
C26_TrendSymmetric ==
    ret.fn = "analyze" =>
        /\ args.ema_20 > args.ema_50 =>
               ret.scores.trend = (IF args.adx > 30 THEN 60 ELSE 40)
        /\ args.ema_20 < args.ema_50 =>
               ret.scores.trend = (IF args.adx > 30 THEN -60 ELSE -40)
        /\ ret.scores.trend \in {-20, -10, 10, 20} =>
               args.ema_20 = args.ema_50

\* C27: a refresh is all-or-nothing: a refresh that fails, by the status, by
\* an exception or by a candle that cannot be parsed, leaves the buffer of
\* its instrument exactly as it was, and a successful refresh makes the
\* buffer the candles of the answer.
C27_RefreshAllOrNothing ==
    [][\A s \in SymbolSet :
          (s \in fetchPending /\ s \notin fetchPending') =>
              /\ kl'[s] # "ok" => history'[s] = history[s]
              /\ kl'[s] = "ok" =>
                     history'[s] = Klines(hour, Len(history'[s]))]_vars

\* The signal classes analyze gives over the tuples of dimension scores the
\* scoring branches yield.
ProducedTypes == {signal_type(final_score(a.scores)) : a \in ScoreArgs}

\* C28: each of the five signal classes is produced for at least one tuple
\* of dimension scores the code can yield; in particular a final score above
\* 65 and a final score of -65 or below are both reached.
C28_EveryClassProduced ==
    /\ ret.fn = "signal_type" => ret.type \in ProducedTypes
    /\ ProducedTypes = SignalTypes
    /\ \E a \in ScoreArgs : final_score(a.scores) > 65
    /\ \E a \in ScoreArgs : final_score(a.scores) <= -65

\* C29: for a neutral signal and ATR > 0 the returned candidates contain at
\* least one BUY and at least one SELL candidate.
C29_NeutralKeepsBothSides ==
    (ret.fn = "find_entries" /\ args.type = "neutral" /\ args.atr > 0) =>
        /\ \E i \in DOMAIN ret.entries : ret.entries[i].order_type = "BUY"
        /\ \E i \in DOMAIN ret.entries : ret.entries[i].order_type = "SELL"

\* C30: for any sequence of start() and stop() calls at most one analysis
\* loop is active at any time, so no two cycles run at the same time.
C30_AtMostOneLoop ==
    /\ Cardinality(ActiveLoops) <= 1
    /\ Cardinality({i \in DOMAIN tasks : tasks[i] = "cycle"}) <= 1

====
